---- MODULE Spec2Model ----
(***************************************************************************)
(* Batch-parallel OCR pipeline of PDF-OCR: the desktop application         *)
(* (main.py, class OCRApp) and the web application (streamlit_app.py,      *)
(* main).  Both split a PDF into page ranges, run process_pdf_chunk on     *)
(* every range in a multiprocessing.Pool, stream START / PROGRESS / DONE   *)
(* tuples through a manager queue to one consumer, and finally sort and    *)
(* render the page results.                                                *)
(***************************************************************************)
EXTENDS Integers, Sequences, FiniteSets, TLC

(* ---------------------------------------------------------------------- *)
(* Bounds of the model and constants of the program                        *)
(* ---------------------------------------------------------------------- *)

\* largest page count pdfinfo_from_path reports in the model
MaxPages == 6

\* largest chunk size tried by the stand-alone partition specification
MaxChunk == 5

\* chunk_size = 5 (main.py:398, streamlit_app.py:265)
chunk_size == 5

None == "none"

Min(a, b) == IF a <= b THEN a ELSE b

\* number of batches the partition loop can create for MaxPages pages
MaxBatches == (MaxPages + chunk_size - 1) \div chunk_size

BatchIds == 1 .. MaxBatches

\* values of multiprocessing.cpu_count(): a pool with more processes than there
\* are batches behaves like one with as many processes as batches
CpuCounts == 1 .. MaxBatches

(* ---------------------------------------------------------------------- *)
(* Partitioning: for start in range(1, total_pages + 1, chunk_size)        *)
(* ---------------------------------------------------------------------- *)

\* faulty variant: the end of a batch is not clamped to the last page
TaskEndUnclamped(start, cs, total) == start + cs - 1

\* end = min(start + chunk_size - 1, total_pages)
TaskEnd(start, cs, total) == Min(start + cs - 1, total)

RECURSIVE CreateChunksFrom(_, _, _, _)
\* the loop body, iterated: batch_counter += 1; tasks.append((.., start, end, .., batch_counter, queue))
CreateChunksFrom(start, total, cs, batch_counter) ==
    IF start >= total + 1
    THEN << >>
    ELSE << [id |-> batch_counter + 1, start |-> start, end |-> TaskEnd(start, cs, total)] >>
         \o CreateChunksFrom(start + cs, total, cs, batch_counter + 1)

\* tasks = []; batch_counter = 0; the for loop
CreateChunks(total, cs) == CreateChunksFrom(1, total, cs, 0)

(* ---------------------------------------------------------------------- *)
(* Events, outcomes, engine results                                        *)
(* ---------------------------------------------------------------------- *)

\* ('START', batch_id, f"Pages {start_page}-{end_page}")
StartEv(b, s, e) == [type |-> "START", id |-> b, cur |-> s, tot |-> e]

\* ('PROGRESS', batch_id, i + 1, total)
ProgressEv(b, cur, tot) == [type |-> "PROGRESS", id |-> b, cur |-> cur, tot |-> tot]

\* ('DONE', batch_id)
DoneEv(b) == [type |-> "DONE", id |-> b, cur |-> 0, tot |-> 0]

\* exceptions the engine calls can raise: an exception object with its message
RasterErr == [kind |-> "RasterizationError", msg |-> "raster failed"]
RecogErr == [kind |-> "RecognitionError", msg |-> "recognition failed"]

\* str(e)
Str(e) == e.msg

\* pytesseract.image_to_string(img): the text is opaque, one text per page
TextOf(p) == "text"

\* (start_page + i, text)
PageResult(p) == [page |-> p, text |-> TextOf(p)]

\* return (True, results)
Success(results) == [state |-> "success", data |-> results, msg |-> ""]

\* return (False, <message>)
Failure(m) == [state |-> "failure", data |-> << >>, msg |-> m]

NoOutcome == [state |-> None, data |-> << >>, msg |-> ""]

\* faulty variant: the pages recognised before the error are returned as a success
WorkerPartialSuccess(results, e) == Success(results)

\* except Exception as e: ... return (False, str(e))
WorkerFailure(results, e) == Failure(Str(e))

\* faulty variant: the except branch forgets to tell the consumer the batch is over
FailureEventsNone(b) == << >>

\* except Exception as e: if queue: queue.put(('DONE', batch_id))
FailureEvents(b) == << DoneEv(b) >>

\* faulty variant: a failed batch goes back to the pool's task queue
RequeuedAfterFailure == "queued"

\* a task whose function returned is finished for the pool, whatever it returned
StateAfterFailure == "returned"

IdleWorker == [st |-> None, i |-> 0, total |-> 0, results |-> << >>]

(* ---------------------------------------------------------------------- *)
(* Aggregation: extend, sort by page number, render                        *)
(* ---------------------------------------------------------------------- *)

\* faulty variant: every result is put in front, whatever its page number
InsertAtFront(sorted, x) == << x >> \o sorted

RECURSIVE InsertByPage(_, _)
\* insert x after every element whose key is <= x's key (list.sort is stable)
InsertByPage(sorted, x) ==
    IF sorted = << >> THEN << x >>
    ELSE IF Head(sorted).page <= x.page
         THEN << Head(sorted) >> \o InsertByPage(Tail(sorted), x)
         ELSE << x >> \o sorted

RECURSIVE SortFrom(_, _)
SortFrom(acc, rest) ==
    IF rest = << >> THEN acc ELSE SortFrom(InsertByPage(acc, Head(rest)), Tail(rest))

\* faulty variant: the results are rendered in arrival order
SortByPageSkipped(data) == data

\* extracted_data.sort(key=lambda x: x[0])
SortByPage(data) == SortFrom(<< >>, data)

\* "\n".join([f"--- Page {p} ---\n{t}" for p, t in extracted_data])
Render(data) == [k \in 1 .. Len(data) |-> [header |-> data[k].page, body |-> data[k].text]]

\* final_text = pytesseract.image_to_string(img): the bare text, no page header
RawText(t) == << [header |-> 0, body |-> t] >>

NoText == [set |-> FALSE, sections |-> << >>]

Text(sections) == [set |-> TRUE, sections |-> sections]

\* faulty variant: a failed batch throws away what was collected so far
ExtendOrReset(extracted, res) ==
    IF res.state = "success" THEN extracted \o res.data ELSE << >>

\* if success: extracted_data.extend(data)
Extend(extracted, res) ==
    IF res.state = "success" THEN extracted \o res.data ELSE extracted

\* else: self.log(f"Error in batch: {data}") / st.error(f"Error in batch: {data}")
ReportError(errs, res) ==
    IF res.state = "failure" THEN Append(errs, res.msg) ELSE errs

\* faulty variant: the result loop stops after the first result
PoolExhaustedEarly(n, ts) == n >= Min(1, Len(ts))

\* imap_unordered is exhausted once it has yielded one result per task
PoolExhausted(n, ts) == n = Len(ts)

\* faulty variant: the polling loop leaves when any result is ready
AnyReady(ts, out) == \E k \in 1 .. Len(ts) : out[ts[k].id].state # None

\* all(r.ready() for r in async_results)
AllReady(ts, out) == \A k \in 1 .. Len(ts) : out[ts[k].id].state # None

(* ---------------------------------------------------------------------- *)
(* State                                                                   *)
(* ---------------------------------------------------------------------- *)

VARIABLES
    app,            \* "desktop" (main.py) or "web" (streamlit_app.py)
    cpu_count,      \* multiprocessing.cpu_count()
    job_pc,         \* position of perform_ocr_multiprocess / of the web script
    kind,           \* "pdf" or "image", from the file extension
    total_pages,    \* info["Pages"]
    tasks,          \* the task list, in creation order
    dispatched,     \* ids of the tasks handed to the pool
    worker,         \* per batch: state of the process_pdf_chunk call
    outcome,        \* per batch: the value process_pdf_chunk returned
    completed,      \* batch ids in the order their results became available
    consumed,       \* number of results the coordinator has taken
    extracted_data, \* the accumulated page results
    errors,         \* the "Error in batch" reports
    final_text,     \* the rendered text
    output_file,    \* what was written to the destination / session state
    fatal,          \* the error that ended the job, if any
    is_processing,  \* OCRApp.is_processing
    current_queue,  \* TRUE iff the queue reference is set
    queue,          \* contents of the manager queue
    pending,        \* scheduled process_queue_updates callbacks
    tick_pc,        \* "none", or "drain" while a tick is in its get loop
    active_bars,    \* ids that have a progress row
    btn_enabled,    \* state of btn_convert
    emitted,        \* history: per batch, the events its worker enqueued
    seen,           \* history: per batch, the events forwarded to the sink
    executions,     \* history: per batch, how often a worker took it
    produced,       \* history: per batch, how many outcomes it produced
    raised,         \* history: per batch, the exception its worker caught
    p_total, p_chunk, p_tasks, p_done   \* the stand-alone partition run

jobVars == << app, cpu_count, job_pc, kind, total_pages, tasks, dispatched,
              consumed, extracted_data, errors, final_text, output_file, fatal >>

workerVars == << worker, outcome, completed, emitted, executions, produced, raised >>

uiVars == << is_processing, current_queue, pending, tick_pc, active_bars,
             btn_enabled, seen >>

partVars == << p_total, p_chunk, p_tasks, p_done >>

vars == << jobVars, workerVars, uiVars, queue, partVars >>

\* largest page count tried by the stand-alone partition specification
MaxPartPages == 12

\* no job has been started: the fields OCRApp.__init__ sets, and empty locals
Quiescent ==
    /\ job_pc = "idle"
    /\ kind = None
    /\ total_pages = 0
    /\ tasks = << >>
    /\ dispatched = {}
    /\ worker = [b \in BatchIds |-> IdleWorker]
    /\ outcome = [b \in BatchIds |-> NoOutcome]
    /\ completed = << >>
    /\ consumed = 0
    /\ extracted_data = << >>
    /\ errors = << >>
    /\ final_text = NoText
    /\ output_file = NoText
    /\ fatal = None
    /\ is_processing = FALSE
    /\ current_queue = FALSE
    /\ queue = << >>
    /\ pending = 0
    /\ tick_pc = None
    /\ active_bars = {}
    /\ btn_enabled = TRUE
    /\ emitted = [b \in BatchIds |-> << >>]
    /\ seen = [b \in BatchIds |-> << >>]
    /\ executions = [b \in BatchIds |-> 0]
    /\ produced = [b \in BatchIds |-> 0]
    /\ raised = [b \in BatchIds |-> None]

\* OCRApp.__init__ / the top of the web script: nothing is running
Init ==
    /\ app \in {"desktop", "web"}
    /\ cpu_count \in CpuCounts
    /\ Quiescent
    /\ p_total = 0
    /\ p_chunk = 1
    /\ p_tasks = << >>
    /\ p_done = FALSE

(* ---------------------------------------------------------------------- *)
(* The worker: process_pdf_chunk, run by a pool process                    *)
(* ---------------------------------------------------------------------- *)

TaskOf(b) == CHOOSE t \in {tasks[k] : k \in 1 .. Len(tasks)} : t.id = b

\* faulty variant: a process that died still occupies its place in the pool
RunningOrDead == {b \in BatchIds : worker[b].st \in {"raster", "ocr", "crashed"}}

\* the batches a pool process is working on
Running == {b \in BatchIds : worker[b].st \in {"raster", "ocr"}}

\* faulty variant: the queue holds one message and put blocks while it is full
CanPutBounded(q) == Len(q) < 1

\* manager.Queue() has no maxsize: put never waits for room
CanPut(q) == TRUE

\* queue.put(ev) by the worker of batch b, once per element of evs
Put(b, evs) ==
    /\ CanPut(queue)
    /\ queue' = queue \o evs
    /\ emitted' = [emitted EXCEPT ![b] = @ \o evs]

\* faulty variant: the pool starts a process for every task at once
SlotAlwaysFree(running, n) == TRUE

\* Pool(processes=cpu_count): a task starts when one of the n processes is idle
SlotFree(running, n) == Cardinality(running) < n

\* the function returns res: the pool makes the result available
Return(b, res, st) ==
    /\ outcome' = [outcome EXCEPT ![b] = res]
    /\ completed' = Append(completed, b)
    /\ produced' = [produced EXCEPT ![b] = @ + 1]
    /\ worker' = [worker EXCEPT ![b].st = st]

\* a free pool process takes the next task; queue.put(('START', ...))
WorkerStart(b) ==
    /\ worker[b].st = "queued"
    /\ SlotFree(Running, cpu_count)
    /\ \A c \in BatchIds : c < b => worker[c].st # "queued"
    /\ worker' = [worker EXCEPT ![b] = [st |-> "raster", i |-> 0, total |-> 0, results |-> << >>]]
    /\ Put(b, << StartEv(b, TaskOf(b).start, TaskOf(b).end) >>)
    /\ executions' = [executions EXCEPT ![b] = @ + 1]
    /\ UNCHANGED << jobVars, uiVars, partVars, outcome, completed, produced, raised >>

\* the numbers of images convert_from_path can return for a range of size pages
ImageCounts(size) == 0 .. size

\* images = convert_from_path(...) returns n images; total = len(images)
WorkerRasterOk(b) ==
    /\ worker[b].st = "raster"
    /\ \E n \in ImageCounts(TaskOf(b).end - TaskOf(b).start + 1) :
          worker' = [worker EXCEPT ![b].st = "ocr", ![b].total = n]
    /\ UNCHANGED << jobVars, uiVars, partVars, queue, outcome, completed, emitted,
                    executions, produced, raised >>

\* except branch: DONE is enqueued and (False, str(e)) returned
WorkerFail(b, e) ==
    /\ Put(b, FailureEvents(b))
    /\ Return(b, WorkerFailure(worker[b].results, e), StateAfterFailure)
    /\ raised' = [raised EXCEPT ![b] = e.kind]
    /\ UNCHANGED << jobVars, uiVars, partVars, executions >>

\* convert_from_path raises
WorkerRasterFail(b) ==
    /\ worker[b].st = "raster"
    /\ WorkerFail(b, RasterErr)

\* one iteration of the page loop: recognise, append, enqueue PROGRESS
WorkerRecognizeOk(b) ==
    /\ worker[b].st = "ocr"
    /\ worker[b].i < worker[b].total
    /\ worker' = [worker EXCEPT
                    ![b].results = Append(@, PageResult(TaskOf(b).start + worker[b].i)),
                    ![b].i = @ + 1]
    /\ Put(b, << ProgressEv(b, worker[b].i + 1, worker[b].total) >>)
    /\ UNCHANGED << jobVars, uiVars, partVars, outcome, completed, executions, produced, raised >>

\* pytesseract.image_to_string raises inside the page loop
WorkerRecognizeFail(b) ==
    /\ worker[b].st = "ocr"
    /\ worker[b].i < worker[b].total
    /\ WorkerFail(b, RecogErr)

\* after the loop: enqueue DONE, return (True, results)
WorkerFinish(b) ==
    /\ worker[b].st = "ocr"
    /\ worker[b].i = worker[b].total
    /\ Put(b, << DoneEv(b) >>)
    /\ Return(b, Success(worker[b].results), "returned")
    /\ UNCHANGED << jobVars, uiVars, partVars, executions, raised >>

\* the pool process running batch b dies (killed, or an error that is no
\* Exception): nothing is enqueued or returned, the pool replaces the process
WorkerCrash(b) ==
    /\ worker[b].st \in {"raster", "ocr"}
    /\ worker' = [worker EXCEPT ![b] = [IdleWorker EXCEPT !.st = "crashed"]]
    /\ UNCHANGED << jobVars, uiVars, partVars, queue, outcome, completed, emitted,
                    executions, produced, raised >>

\* Pool.__exit__ calls terminate(): the pool processes are killed
Terminated(w) ==
    [b \in BatchIds |-> IF w[b].st \in {"queued", "raster", "ocr"}
                        THEN [w[b] EXCEPT !.st = "terminated"] ELSE w[b]]

(* ---------------------------------------------------------------------- *)
(* The sink: what forwarding one event does to the progress rows           *)
(* ---------------------------------------------------------------------- *)

\* faulty variant: DONE leaves the row of its batch in place
ForwardNoRemove(bars, ev) ==
    CASE ev.type = "START" -> bars \cup {ev.id}
      [] ev.type = "PROGRESS" -> bars
      [] ev.type = "DONE" -> bars

Forward(bars, ev) ==
    CASE ev.type = "START" -> bars \cup {ev.id}
      [] ev.type = "PROGRESS" -> bars
      [] ev.type = "DONE" -> bars \ {ev.id}

\* faulty variant: the message is read but stays in the queue
ForwardHeadKept ==
    /\ queue # << >>
    /\ active_bars' = Forward(active_bars, Head(queue))
    /\ seen' = [seen EXCEPT ![Head(queue).id] = Append(@, Head(queue))]
    /\ queue' = queue

\* msg = queue.get_nowait() and the branch for its type
ForwardHead ==
    /\ queue # << >>
    /\ active_bars' = Forward(active_bars, Head(queue))
    /\ seen' = [seen EXCEPT ![Head(queue).id] = Append(@, Head(queue))]
    /\ queue' = Tail(queue)

(* ---------------------------------------------------------------------- *)
(* Desktop application: OCRApp                                             *)
(* ---------------------------------------------------------------------- *)

\* start_conversion_thread: the button is pressed with both paths set
StartConversion ==
    /\ app = "desktop"
    /\ job_pc = "idle"
    /\ btn_enabled
    /\ tick_pc = None
    /\ btn_enabled' = FALSE
    /\ is_processing' = TRUE
    /\ active_bars' = {}
    /\ job_pc' = "manager"
    /\ UNCHANGED << app, cpu_count, kind, total_pages, tasks, dispatched, consumed,
                    extracted_data, errors, final_text, output_file, fatal,
                    workerVars, current_queue, pending, tick_pc, seen, queue, partVars >>

\* self.current_queue = manager.Queue(); self.root.after(50, self.process_queue_updates)
DesktopCreateQueue ==
    /\ app = "desktop"
    /\ job_pc = "manager"
    /\ current_queue' = TRUE
    /\ queue' = << >>
    /\ pending' = pending + 1
    /\ job_pc' = "analyze"
    /\ UNCHANGED << app, cpu_count, kind, total_pages, tasks, dispatched, consumed,
                    extracted_data, errors, final_text, output_file, fatal,
                    workerVars, is_processing, tick_pc, active_bars, btn_enabled,
                    seen, partVars >>

\* file_ext == '.pdf' or not
DesktopAnalyze ==
    /\ app = "desktop"
    /\ job_pc = "analyze"
    /\ \E k \in {"pdf", "image"} :
          /\ kind' = k
          /\ job_pc' = IF k = "pdf" THEN "pdfinfo" ELSE "image_start"
    /\ UNCHANGED << app, cpu_count, total_pages, tasks, dispatched, consumed,
                    extracted_data, errors, final_text, output_file, fatal,
                    workerVars, uiVars, queue, partVars >>

\* total_pages = pdfinfo_from_path(...)["Pages"]
DesktopPdfInfoOk ==
    /\ app = "desktop"
    /\ job_pc = "pdfinfo"
    /\ \E n \in 0 .. MaxPages : total_pages' = n
    /\ job_pc' = "chunks"
    /\ UNCHANGED << app, cpu_count, kind, tasks, dispatched, consumed,
                    extracted_data, errors, final_text, output_file, fatal,
                    workerVars, uiVars, queue, partVars >>

\* faulty variant: the early return leaves without running the finally block
DesktopPdfInfoFailNoFinally ==
    /\ app = "desktop"
    /\ job_pc = "pdfinfo"
    /\ fatal' = "pagecount"
    /\ job_pc' = "ended"
    /\ UNCHANGED << app, cpu_count, kind, total_pages, tasks, dispatched, consumed,
                    extracted_data, errors, final_text, output_file,
                    workerVars, uiVars, queue, partVars >>

\* pdfinfo_from_path raises: the error is logged and the function returns
DesktopPdfInfoFail ==
    /\ app = "desktop"
    /\ job_pc = "pdfinfo"
    /\ fatal' = "pagecount"
    /\ job_pc' = "finally"
    /\ UNCHANGED << app, cpu_count, kind, total_pages, tasks, dispatched, consumed,
                    extracted_data, errors, final_text, output_file,
                    workerVars, uiVars, queue, partVars >>

\* 2. Create Chunks
DesktopCreateChunks ==
    /\ app = "desktop"
    /\ job_pc = "chunks"
    /\ tasks' = CreateChunks(total_pages, chunk_size)
    /\ job_pc' = "pool_open"
    /\ UNCHANGED << app, cpu_count, kind, total_pages, dispatched, consumed,
                    extracted_data, errors, final_text, output_file, fatal,
                    workerVars, uiVars, queue, partVars >>

\* the tasks handed to the pool: every one is queued for a pool process
Submit(w, ts) ==
    [b \in BatchIds |-> IF \E k \in 1 .. Len(ts) : ts[k].id = b
                        THEN [w[b] EXCEPT !.st = "queued"] ELSE w[b]]

\* with multiprocessing.Pool(processes=self.cpu_count) as pool: pool.imap_unordered(...)
DesktopOpenPool ==
    /\ app = "desktop"
    /\ job_pc = "pool_open"
    /\ worker' = Submit(worker, tasks)
    /\ dispatched' = {tasks[k].id : k \in 1 .. Len(tasks)}
    /\ job_pc' = "results"
    /\ UNCHANGED << app, cpu_count, kind, total_pages, tasks, consumed,
                    extracted_data, errors, final_text, output_file, fatal,
                    outcome, completed, emitted, executions, produced, raised,
                    uiVars, queue, partVars >>

\* a Success whose data is empty makes min(pages_done) raise ValueError
LogRaises(res) == res.state = "success" /\ res.data = << >>

\* one iteration of "for result in pool.imap_unordered(...)"
DesktopNextResult ==
    /\ app = "desktop"
    /\ job_pc = "results"
    /\ consumed < Len(completed)
    /\ LET res == outcome[completed[consumed + 1]] IN
          /\ consumed' = consumed + 1
          /\ extracted_data' = Extend(extracted_data, res)
          /\ errors' = ReportError(errors, res)
          /\ IF LogRaises(res)
             THEN /\ worker' = Terminated(worker)
                  /\ fatal' = "unexpected"
                  /\ job_pc' = "finally"
             ELSE UNCHANGED << worker, fatal, job_pc >>
    /\ UNCHANGED << app, cpu_count, kind, total_pages, tasks, dispatched,
                    final_text, output_file,
                    outcome, completed, emitted, executions, produced, raised,
                    uiVars, queue, partVars >>

\* the iterator is exhausted, the pool is left; 4. Sort results and render
DesktopAggregate ==
    /\ app = "desktop"
    /\ job_pc = "results"
    /\ PoolExhausted(consumed, tasks)
    /\ worker' = Terminated(worker)
    /\ extracted_data' = SortByPage(extracted_data)
    /\ final_text' = Text(Render(extracted_data'))
    /\ job_pc' = "save"
    /\ UNCHANGED << app, cpu_count, kind, total_pages, tasks, dispatched, consumed,
                    errors, output_file, fatal,
                    outcome, completed, emitted, executions, produced, raised,
                    uiVars, queue, partVars >>

\* the job thread enqueues an event of the single image, as batch 1
JobPut(ev) ==
    /\ queue' = Append(queue, ev)
    /\ emitted' = [emitted EXCEPT ![1] = Append(@, ev)]

\* self.current_queue.put(('START', 1, "Image Processing"))
DesktopImageStart ==
    /\ app = "desktop"
    /\ job_pc = "image_start"
    /\ JobPut(StartEv(1, 1, 1))
    /\ job_pc' = "image_ocr"
    /\ UNCHANGED << app, cpu_count, kind, total_pages, tasks, dispatched, consumed,
                    extracted_data, errors, final_text, output_file, fatal,
                    worker, outcome, completed, executions, produced, raised,
                    uiVars, partVars >>

\* with Image.open(input_path) as img: final_text = pytesseract.image_to_string(img)
DesktopImageOcrOk ==
    /\ app = "desktop"
    /\ job_pc = "image_ocr"
    /\ final_text' = Text(RawText(TextOf(1)))
    /\ job_pc' = "image_progress"
    /\ UNCHANGED << app, cpu_count, kind, total_pages, tasks, dispatched, consumed,
                    extracted_data, errors, output_file, fatal,
                    workerVars, uiVars, queue, partVars >>

\* Image.open or image_to_string raises: the outer except takes over
DesktopImageOcrFail ==
    /\ app = "desktop"
    /\ job_pc = "image_ocr"
    /\ fatal' = "unreadable"
    /\ job_pc' = "finally"
    /\ UNCHANGED << app, cpu_count, kind, total_pages, tasks, dispatched, consumed,
                    extracted_data, errors, final_text, output_file,
                    workerVars, uiVars, queue, partVars >>

\* self.current_queue.put(('PROGRESS', 1, 1, 1))
DesktopImageProgress ==
    /\ app = "desktop"
    /\ job_pc = "image_progress"
    /\ JobPut(ProgressEv(1, 1, 1))
    /\ job_pc' = "image_done"
    /\ UNCHANGED << app, cpu_count, kind, total_pages, tasks, dispatched, consumed,
                    extracted_data, errors, final_text, output_file, fatal,
                    worker, outcome, completed, executions, produced, raised,
                    uiVars, partVars >>

\* self.current_queue.put(('DONE', 1))
DesktopImageDone ==
    /\ app = "desktop"
    /\ job_pc = "image_done"
    /\ JobPut(DoneEv(1))
    /\ job_pc' = "save"
    /\ UNCHANGED << app, cpu_count, kind, total_pages, tasks, dispatched, consumed,
                    extracted_data, errors, final_text, output_file, fatal,
                    worker, outcome, completed, executions, produced, raised,
                    uiVars, partVars >>

\* with open(output_path, "w") as f: f.write(final_text); "COMPLETED SUCCESSFULLY."
DesktopSaveOk ==
    /\ app = "desktop"
    /\ job_pc = "save"
    /\ output_file' = final_text
    /\ job_pc' = "finally"
    /\ UNCHANGED << app, cpu_count, kind, total_pages, tasks, dispatched, consumed,
                    extracted_data, errors, final_text, fatal,
                    workerVars, uiVars, queue, partVars >>

\* open(output_path, "w") raises: the destination is not writable
DesktopSaveFail ==
    /\ app = "desktop"
    /\ job_pc = "save"
    /\ fatal' = "destination"
    /\ job_pc' = "finally"
    /\ UNCHANGED << app, cpu_count, kind, total_pages, tasks, dispatched, consumed,
                    extracted_data, errors, final_text, output_file,
                    workerVars, uiVars, queue, partVars >>

\* finally: self.is_processing = False
DesktopFinallyFlag ==
    /\ app = "desktop"
    /\ job_pc = "finally"
    /\ is_processing' = FALSE
    /\ job_pc' = "finally_queue"
    /\ UNCHANGED << app, cpu_count, kind, total_pages, tasks, dispatched, consumed,
                    extracted_data, errors, final_text, output_file, fatal,
                    workerVars, current_queue, pending, tick_pc, active_bars,
                    btn_enabled, seen, queue, partVars >>

\* finally: self.current_queue = None
DesktopFinallyQueue ==
    /\ app = "desktop"
    /\ job_pc = "finally_queue"
    /\ current_queue' = FALSE
    /\ job_pc' = "finally_button"
    /\ UNCHANGED << app, cpu_count, kind, total_pages, tasks, dispatched, consumed,
                    extracted_data, errors, final_text, output_file, fatal,
                    workerVars, is_processing, pending, tick_pc, active_bars,
                    btn_enabled, seen, queue, partVars >>

\* finally: the button is re-enabled; the manager is left and the thread ends
DesktopFinallyButton ==
    /\ app = "desktop"
    /\ job_pc = "finally_button"
    /\ btn_enabled' = TRUE
    /\ job_pc' = "ended"
    /\ UNCHANGED << app, cpu_count, kind, total_pages, tasks, dispatched, consumed,
                    extracted_data, errors, final_text, output_file, fatal,
                    workerVars, is_processing, current_queue, pending, tick_pc,
                    active_bars, seen, queue, partVars >>

\* a scheduled process_queue_updates starts: "if not self.current_queue: return"
TickStart ==
    /\ app = "desktop"
    /\ pending > 0
    /\ tick_pc = None
    /\ pending' = pending - 1
    /\ tick_pc' = IF current_queue THEN "drain" ELSE None
    /\ UNCHANGED << jobVars, workerVars, is_processing, current_queue, active_bars,
                    btn_enabled, seen, queue, partVars >>

\* one iteration of the while True loop that finds a message
TickForward ==
    /\ app = "desktop"
    /\ tick_pc = "drain"
    /\ current_queue
    /\ ForwardHead
    /\ UNCHANGED << jobVars, workerVars, is_processing, current_queue, pending,
                    tick_pc, btn_enabled, partVars >>

\* the loop ends (queue.Empty, or the reference is gone); finally: reschedule
TickEnd ==
    /\ app = "desktop"
    /\ tick_pc = "drain"
    /\ queue = << >> \/ ~current_queue
    /\ tick_pc' = None
    /\ pending' = IF is_processing THEN pending + 1 ELSE pending
    /\ UNCHANGED << jobVars, workerVars, is_processing, current_queue, active_bars,
                    btn_enabled, seen, queue, partVars >>

(* ---------------------------------------------------------------------- *)
(* Web application: streamlit main()                                       *)
(* ---------------------------------------------------------------------- *)

\* "Start Processing" is pressed with a file uploaded
WebStart ==
    /\ app = "web"
    /\ job_pc = "idle"
    /\ job_pc' = "analyze"
    /\ UNCHANGED << app, cpu_count, kind, total_pages, tasks, dispatched, consumed,
                    extracted_data, errors, final_text, output_file, fatal,
                    workerVars, uiVars, queue, partVars >>

\* file_ext == '.pdf' or not
WebAnalyze ==
    /\ app = "web"
    /\ job_pc = "analyze"
    /\ \E k \in {"pdf", "image"} :
          /\ kind' = k
          /\ job_pc' = IF k = "pdf" THEN "pdfinfo" ELSE "image_ocr"
    /\ UNCHANGED << app, cpu_count, total_pages, tasks, dispatched, consumed,
                    extracted_data, errors, final_text, output_file, fatal,
                    workerVars, uiVars, queue, partVars >>

\* total_pages = pdfinfo_from_path(...)["Pages"]
WebPdfInfoOk ==
    /\ app = "web"
    /\ job_pc = "pdfinfo"
    /\ \E n \in 0 .. MaxPages : total_pages' = n
    /\ job_pc' = "chunks"
    /\ UNCHANGED << app, cpu_count, kind, tasks, dispatched, consumed,
                    extracted_data, errors, final_text, output_file, fatal,
                    workerVars, uiVars, queue, partVars >>

\* pdfinfo_from_path raises: except reports it, the script ends
WebPdfInfoFail ==
    /\ app = "web"
    /\ job_pc = "pdfinfo"
    /\ fatal' = "pagecount"
    /\ job_pc' = "ended"
    /\ UNCHANGED << app, cpu_count, kind, total_pages, tasks, dispatched, consumed,
                    extracted_data, errors, final_text, output_file,
                    workerVars, uiVars, queue, partVars >>

\* 2. Prepare Tasks: the manager queue is created, then the task loop runs
WebCreateChunks ==
    /\ app = "web"
    /\ job_pc = "chunks"
    /\ current_queue' = TRUE
    /\ queue' = << >>
    /\ tasks' = CreateChunks(total_pages, chunk_size)
    /\ job_pc' = "pool_open"
    /\ UNCHANGED << app, cpu_count, kind, total_pages, dispatched, consumed,
                    extracted_data, errors, final_text, output_file, fatal,
                    workerVars, is_processing, pending, tick_pc, active_bars,
                    btn_enabled, seen, partVars >>

\* pool = Pool(cpu_count); apply_async for every task; pool.close(); while active_tasks > 0
WebOpenPool ==
    /\ app = "web"
    /\ job_pc = "pool_open"
    /\ worker' = Submit(worker, tasks)
    /\ dispatched' = {tasks[k].id : k \in 1 .. Len(tasks)}
    /\ job_pc' = IF Len(tasks) > 0 THEN "poll" ELSE "join"
    /\ UNCHANGED << app, cpu_count, kind, total_pages, tasks, consumed,
                    extracted_data, errors, final_text, output_file, fatal,
                    outcome, completed, emitted, executions, produced, raised,
                    uiVars, queue, partVars >>

\* one iteration of the inner while True loop that finds a message
WebForward ==
    /\ app = "web"
    /\ job_pc = "poll"
    /\ ForwardHead
    /\ UNCHANGED << jobVars, workerVars, is_processing, current_queue, pending,
                    tick_pc, btn_enabled, partVars >>

\* get_nowait raises queue.Empty: the inner loop is left
WebDrained ==
    /\ app = "web"
    /\ job_pc = "poll"
    /\ queue = << >>
    /\ job_pc' = "poll_check"
    /\ UNCHANGED << app, cpu_count, kind, total_pages, tasks, dispatched, consumed,
                    extracted_data, errors, final_text, output_file, fatal,
                    workerVars, uiVars, queue, partVars >>

\* if all(r.ready() ...): break; else time.sleep(0.1) and the next round
WebCheckReady ==
    /\ app = "web"
    /\ job_pc = "poll_check"
    /\ job_pc' = IF AllReady(tasks, outcome) THEN "join" ELSE "poll"
    /\ UNCHANGED << app, cpu_count, kind, total_pages, tasks, dispatched, consumed,
                    extracted_data, errors, final_text, output_file, fatal,
                    workerVars, uiVars, queue, partVars >>

\* pool.join(): returns once the pool processes have exited, all tasks done
WebJoin ==
    /\ app = "web"
    /\ job_pc = "join"
    /\ \A b \in dispatched : worker[b].st = "returned"
    /\ job_pc' = "collect"
    /\ UNCHANGED << app, cpu_count, kind, total_pages, tasks, dispatched, consumed,
                    extracted_data, errors, final_text, output_file, fatal,
                    workerVars, uiVars, queue, partVars >>

\* one iteration of "for r in async_results: success, data = r.get()"
WebNextResult ==
    /\ app = "web"
    /\ job_pc = "collect"
    /\ consumed < Len(tasks)
    /\ outcome[tasks[consumed + 1].id].state # None
    /\ LET res == outcome[tasks[consumed + 1].id] IN
          /\ consumed' = consumed + 1
          /\ extracted_data' = Extend(extracted_data, res)
          /\ errors' = ReportError(errors, res)
    /\ UNCHANGED << app, cpu_count, kind, total_pages, tasks, dispatched,
                    final_text, output_file, fatal, job_pc,
                    workerVars, uiVars, queue, partVars >>

\* after the loop: sort and render
WebAggregate ==
    /\ app = "web"
    /\ job_pc = "collect"
    /\ consumed = Len(tasks)
    /\ extracted_data' = SortByPage(extracted_data)
    /\ final_text' = Text(Render(extracted_data'))
    /\ job_pc' = "store"
    /\ UNCHANGED << app, cpu_count, kind, total_pages, tasks, dispatched, consumed,
                    errors, output_file, fatal,
                    workerVars, uiVars, queue, partVars >>

\* with Image.open(input_path) as img: final_text = pytesseract.image_to_string(img)
WebImageOcrOk ==
    /\ app = "web"
    /\ job_pc = "image_ocr"
    /\ final_text' = Text(RawText(TextOf(1)))
    /\ job_pc' = "store"
    /\ UNCHANGED << app, cpu_count, kind, total_pages, tasks, dispatched, consumed,
                    extracted_data, errors, output_file, fatal,
                    workerVars, uiVars, queue, partVars >>

\* Image.open or image_to_string raises
WebImageOcrFail ==
    /\ app = "web"
    /\ job_pc = "image_ocr"
    /\ fatal' = "unreadable"
    /\ job_pc' = "ended"
    /\ UNCHANGED << app, cpu_count, kind, total_pages, tasks, dispatched, consumed,
                    extracted_data, errors, final_text, output_file,
                    workerVars, uiVars, queue, partVars >>

\* st.session_state.ocr_result = final_text; "Processing Complete!"
WebStore ==
    /\ app = "web"
    /\ job_pc = "store"
    /\ output_file' = final_text
    /\ job_pc' = "ended"
    /\ UNCHANGED << app, cpu_count, kind, total_pages, tasks, dispatched, consumed,
                    extracted_data, errors, final_text, fatal,
                    workerVars, uiVars, queue, partVars >>

(* ---------------------------------------------------------------------- *)
(* Specifications                                                          *)
(* ---------------------------------------------------------------------- *)

WorkerNext ==
    \E b \in BatchIds :
        \/ WorkerStart(b)
        \/ WorkerRasterOk(b)
        \/ WorkerRasterFail(b)
        \/ WorkerRecognizeOk(b)
        \/ WorkerRecognizeFail(b)
        \/ WorkerFinish(b)

DesktopNext ==
    \/ StartConversion
    \/ DesktopCreateQueue
    \/ DesktopAnalyze
    \/ DesktopPdfInfoOk
    \/ DesktopPdfInfoFail
    \/ DesktopCreateChunks
    \/ DesktopOpenPool
    \/ DesktopNextResult
    \/ DesktopAggregate
    \/ DesktopImageStart
    \/ DesktopImageOcrOk
    \/ DesktopImageOcrFail
    \/ DesktopImageProgress
    \/ DesktopImageDone
    \/ DesktopSaveOk
    \/ DesktopSaveFail
    \/ DesktopFinallyFlag
    \/ DesktopFinallyQueue
    \/ DesktopFinallyButton
    \/ TickStart
    \/ TickForward
    \/ TickEnd

WebNext ==
    \/ WebStart
    \/ WebAnalyze
    \/ WebPdfInfoOk
    \/ WebPdfInfoFail
    \/ WebCreateChunks
    \/ WebOpenPool
    \/ WebForward
    \/ WebDrained
    \/ WebCheckReady
    \/ WebJoin
    \/ WebNextResult
    \/ WebAggregate
    \/ WebImageOcrOk
    \/ WebImageOcrFail
    \/ WebStore

Next == WorkerNext \/ DesktopNext \/ WebNext

Spec == Init /\ [][Next]_vars

\* a step of the worker of batch b that its own code takes
WorkerStep(b) ==
    \/ WorkerStart(b)
    \/ WorkerRasterOk(b)
    \/ WorkerRasterFail(b)
    \/ WorkerRecognizeOk(b)
    \/ WorkerRecognizeFail(b)
    \/ WorkerFinish(b)

CrashNext == \E b \in BatchIds : WorkerCrash(b)

FaultNext == Next \/ CrashNext

\* the program with pool processes that may die; the operating system runs
\* every pool process that can take a step, and engine calls return or raise
FaultSpec ==
    /\ Init
    /\ [][FaultNext]_vars
    /\ \A b \in BatchIds : WF_vars(WorkerStep(b))

\* the partition loop alone, for any page count and chunk size
PartitionInit ==
    /\ app = "desktop"
    /\ cpu_count = 1
    /\ Quiescent
    /\ p_total \in 0 .. MaxPartPages
    /\ p_chunk \in 1 .. MaxChunk
    /\ p_tasks = << >>
    /\ p_done = FALSE

\* the loop of "2. Create Chunks" run for p_total pages in chunks of p_chunk
PartitionRun ==
    /\ ~p_done
    /\ p_tasks' = CreateChunks(p_total, p_chunk)
    /\ p_done' = TRUE
    /\ UNCHANGED << jobVars, workerVars, uiVars, queue, p_total, p_chunk >>

PartitionNext == PartitionRun

PartitionSpec == PartitionInit /\ [][PartitionNext]_vars

(* ---------------------------------------------------------------------- *)
(* Properties                                                              *)
(* ---------------------------------------------------------------------- *)

Ceil(a, b) == (a + b - 1) \div b

PagesOf(text) == {text.sections[k].header : k \in 1 .. Len(text.sections)}

Failed == {b \in dispatched : outcome[b].state = "failure"}

Succeeded == {b \in dispatched : outcome[b].state = "success"}

\* the text of a PDF job has been sorted and rendered
PdfTextReady == kind = "pdf" /\ final_text.set

\* C1: for pageCount >= 1 and chunkSize >= 1 the partition loop builds
\* ceil(pageCount / chunkSize) batches, batch k (0-indexed) has id k + 1 and
\* covers [k * chunkSize + 1, min((k + 1) * chunkSize, pageCount)]; the batches
\* are contiguous, do not overlap and cover exactly [1, pageCount].
PartitionCorrect ==
    (p_done /\ p_total >= 1) =>
        /\ Len(p_tasks) = Ceil(p_total, p_chunk)
        /\ \A k \in 1 .. Len(p_tasks) :
              /\ p_tasks[k].id = k
              /\ p_tasks[k].start = (k - 1) * p_chunk + 1
              /\ p_tasks[k].end = Min(k * p_chunk, p_total)
              /\ p_tasks[k].start <= p_tasks[k].end
        /\ p_tasks[1].start = 1
        /\ p_tasks[Len(p_tasks)].end = p_total
        /\ \A k \in 1 .. Len(p_tasks) - 1 : p_tasks[k + 1].start = p_tasks[k].end + 1
        /\ \A pg \in 1 .. p_total :
              Cardinality({k \in 1 .. Len(p_tasks) :
                              p_tasks[k].start <= pg /\ pg <= p_tasks[k].end}) = 1

\* 12 pages in chunks of 5: three batches, the last one clamped to page 12
PartitionWitness ==
    /\ p_done
    /\ p_total = 12
    /\ p_chunk = 5
    /\ Len(p_tasks) = 3
    /\ p_tasks[3].start = 11
    /\ p_tasks[3].end = 12

\* s is a prefix of START PROGRESS* DONE for batch b
EventPrefix(s, b) ==
    /\ \A k \in 1 .. Len(s) : s[k].id = b
    /\ Len(s) >= 1 => s[1].type = "START"
    /\ \A k \in 2 .. Len(s) :
          \/ s[k].type = "PROGRESS"
          \/ s[k].type = "DONE" /\ k = Len(s)

\* s is exactly START PROGRESS* DONE for batch b
EventComplete(s, b) ==
    /\ EventPrefix(s, b)
    /\ Len(s) >= 2
    /\ s[Len(s)].type = "DONE"

\* C2: on every path of the worker (rasterization fails, a recognition fails,
\* all pages succeed) the events it enqueued for its batch are one START, then
\* PROGRESS events, then one DONE, and nothing after the DONE.
WorkerEventOrder ==
    \A b \in dispatched :
        /\ EventPrefix(emitted[b], b)
        /\ outcome[b].state # None => EventComplete(emitted[b], b)

\* both batches returned: one failed in recognition after a page, one succeeded
\* after at least one page
WorkerEventWitness ==
    /\ \E b \in Failed : raised[b] = "RecognitionError" /\ Len(emitted[b]) >= 3
    /\ \E c \in Succeeded : Len(emitted[c]) >= 3

\* the coordinator has stopped polling the queue
PollingStopped ==
    \/ app = "desktop" /\ job_pc = "ended" /\ pending = 0 /\ tick_pc = None
    \/ app = "web" /\ job_pc \in {"join", "collect", "store", "ended"}

\* C3: once polling has stopped, every event a worker enqueued has been
\* forwarded: the sink saw START PROGRESS* DONE of every batch that returned.
FinalDrainDelivers ==
    PollingStopped =>
        \A b \in dispatched :
            outcome[b].state # None =>
                seen[b] = emitted[b] /\ EventComplete(seen[b], b)

\* C4: the text of a PDF job is sorted and rendered only after every
\* dispatched batch has produced exactly one outcome.
PoolBarrier ==
    PdfTextReady =>
        /\ dispatched = {tasks[k].id : k \in 1 .. Len(tasks)}
        /\ \A b \in dispatched : outcome[b].state # None /\ produced[b] = 1

\* a rendered text over two batches, one failed and one succeeded
PoolBarrierWitness ==
    /\ PdfTextReady
    /\ Cardinality(dispatched) = 2
    /\ Failed # {}
    /\ Succeeded # {}

PagesStrictlyIncreasing ==
    PdfTextReady =>
        \A j, k \in 1 .. Len(final_text.sections) :
            j < k => final_text.sections[j].header < final_text.sections[k].header

\* batch 2 completed before batch 1 and both contributed pages
PagesOrderWitness ==
    /\ PdfTextReady
    /\ app = "desktop"
    /\ completed = << 2, 1 >>
    /\ \A b \in {1, 2} : outcome[b].state = "success" /\ Len(outcome[b].data) >= 1

\* C7: a batch whose rasterization or recognition raised has the outcome
\* Failure with the error's message, and none of the pages it had recognised
\* before the error is in the final text.
NoPartialSuccess ==
    \A b \in dispatched :
        raised[b] # None =>
            /\ outcome[b].state = "failure"
            /\ outcome[b].data = << >>
            /\ outcome[b].msg = (IF raised[b] = RasterErr.kind THEN RasterErr.msg ELSE RecogErr.msg)
            /\ PdfTextReady =>
                  \A k \in 1 .. Len(worker[b].results) :
                      worker[b].results[k].page \notin PagesOf(final_text)

\* a batch failed after it had recognised pages, and the text was rendered
NoPartialSuccessWitness ==
    /\ PdfTextReady
    /\ \E b \in dispatched :
          /\ raised[b] = "RecognitionError"
          /\ Len(worker[b].results) >= 2
    /\ Len(final_text.sections) >= 1

\* C8: a PDF whose page count is below 1 dispatches no batch and does not end
\* with an output written.
ZeroPagesRejected ==
    (kind = "pdf" /\ job_pc = "ended" /\ fatal # "pagecount" /\ total_pages < 1) =>
        dispatched = {} /\ ~output_file.set

\* C9: a job-fatal error (page count unreadable, document unreadable,
\* destination not writable) ends the job with no batch dispatched and no
\* output written.
FatalBeforeDispatch ==
    fatal \in {"pagecount", "unreadable", "destination"} =>
        dispatched = {} /\ ~output_file.set

OwnPages(b) == [k \in 1 .. worker[b].total |-> PageResult(TaskOf(b).start + k - 1)]

\* some batch other than b was being run by a pool process that died
OtherCrashed(b) == \E c \in BatchIds \ {b} : worker[c].st = "crashed"

\* the batches a live pool process is working on
Busy == {c \in BatchIds : worker[c].st \in {"raster", "ocr"}}

JobEndsWithAllOutcomes ==
    (kind = "pdf" /\ job_pc = "ended" /\ dispatched # {}) =>
        \A b \in dispatched : outcome[b].state # None

\* C13: a single-image job runs as the implicit batch 1: the queue got exactly
\* START, PROGRESS(1, 1), DONE for batch 1, whether the recognition succeeded or
\* failed, and a written output is exactly one page section numbered 1.
SingleImageBatch ==
    (kind = "image" /\ job_pc = "ended") =>
        /\ Len(emitted[1]) = 3
        /\ emitted[1][1].type = "START"
        /\ emitted[1][2] = ProgressEv(1, 1, 1)
        /\ emitted[1][3] = DoneEv(1)
        /\ output_file.set =>
              /\ Len(output_file.sections) = 1
              /\ output_file.sections[1].header = 1

\* the batch whose declared range holds page pg
BatchOfPage(pg) == CHOOSE b \in dispatched : TaskOf(b).start <= pg /\ pg <= TaskOf(b).end

SectionsOf(text, pg) == {k \in 1 .. Len(text.sections) : text.sections[k].header = pg}

\* C14: at the completion of a PDF job every page of [1, total_pages] has
\* exactly one section in the output, or belongs to a failed batch that was
\* reported as an error, and never both.
NoPageSilentlyDropped ==
    (kind = "pdf" /\ output_file.set) =>
        \A pg \in 1 .. total_pages :
            \/ /\ Cardinality(SectionsOf(output_file, pg)) = 1
               /\ BatchOfPage(pg) \notin Failed
            \/ /\ SectionsOf(output_file, pg) = {}
               /\ BatchOfPage(pg) \in Failed
               /\ Len(errors) = Cardinality(Failed)

\* the batches a pool process has taken so far
Started == {b \in BatchIds : executions[b] >= 1}

\* C15: never more than cpu_count batches are being executed, all batches are
\* handed to the pool at once, and a batch beyond the first cpu_count ones has
\* started only after an earlier one has produced its outcome.
ConcurrencyBound ==
    /\ cpu_count >= 1
    /\ Cardinality(Busy) <= cpu_count
    /\ dispatched # {} =>
          /\ dispatched = {tasks[k].id : k \in 1 .. Len(tasks)}
          /\ \A b \in dispatched : worker[b].st # None
    /\ Cardinality(Started) <= cpu_count + Len(completed)

\* one pool process: batch 2 is running after batch 1 has returned
ConcurrencyBoundWitness ==
    /\ cpu_count = 1
    /\ Cardinality(dispatched) = 2
    /\ worker[1].st = "returned"
    /\ worker[2].st = "ocr"

\* C16: a worker that is at an enqueue can always take it, whatever the number
\* of undrained events and whatever the coordinator is doing: START when a
\* pool process is free, PROGRESS after a page, DONE at the end or on an error.
EnqueueNeverBlocks ==
    \A b \in dispatched :
        /\ (worker[b].st = "queued" /\ SlotFree(Busy, cpu_count)
              /\ \A c \in BatchIds : c < b => worker[c].st # "queued")
                 => ENABLED WorkerStart(b)
        /\ worker[b].st = "raster" => ENABLED WorkerRasterFail(b)
        /\ (worker[b].st = "ocr" /\ worker[b].i < worker[b].total)
                 => ENABLED WorkerRecognizeOk(b) /\ ENABLED WorkerRecognizeFail(b)
        /\ (worker[b].st = "ocr" /\ worker[b].i = worker[b].total)
                 => ENABLED WorkerFinish(b)

\* four events wait in the queue, no tick is draining, a worker is at a page
EnqueueNeverBlocksWitness ==
    /\ app = "desktop"
    /\ tick_pc = None
    /\ Len(queue) >= 4
    /\ \E b \in dispatched : worker[b].st = "ocr" /\ worker[b].i < worker[b].total

(* ---------------------------------------------------------------------- *)
(* Presentation-layer errors while an event is forwarded                   *)
(* ---------------------------------------------------------------------- *)

\* process_queue_updates: a widget call raises after get_nowait took the
\* message and handed it to the sink, before the registry is updated.  It is not
\* queue.Empty, so it leaves the callback through the finally clause, which
\* reschedules the tick; the job thread is not involved.
TickForwardFail ==
    /\ app = "desktop"
    /\ tick_pc = "drain"
    /\ current_queue
    /\ queue # << >>
    /\ queue' = Tail(queue)
    /\ seen' = [seen EXCEPT ![Head(queue).id] = Append(@, Head(queue))]
    /\ tick_pc' = None
    /\ pending' = IF is_processing THEN pending + 1 ELSE pending
    /\ UNCHANGED << jobVars, workerVars, is_processing, current_queue, active_bars,
                    btn_enabled, partVars >>

\* streamlit main(): a st.* call of the polling loop raises after get_nowait
\* took the message.  Only queue.Empty is caught inside the loop, so the
\* exception reaches "except Exception" of the job: st.error, the temporary
\* file is removed, and the script ends without join, collection or result.
\* The pool is never joined; it goes on or is torn down with its last reference.
WebForwardFail ==
    /\ app = "web"
    /\ job_pc = "poll"
    /\ queue # << >>
    /\ queue' = Tail(queue)
    /\ seen' = [seen EXCEPT ![Head(queue).id] = Append(@, Head(queue))]
    /\ fatal' = "presentation"
    /\ job_pc' = "ended"
    /\ worker' \in {worker, Terminated(worker)}
    /\ UNCHANGED << app, cpu_count, kind, total_pages, tasks, dispatched, consumed,
                    extracted_data, errors, final_text, output_file,
                    outcome, completed, emitted, executions, produced, raised,
                    is_processing, current_queue, pending, tick_pc, active_bars,
                    btn_enabled, partVars >>

UiErrorNext == TickForwardFail \/ WebForwardFail

UiNext == Next \/ UiErrorNext

UiSpec == Init /\ [][UiNext]_vars

\* C17: a job on a PDF that ended with no error other than presentation
\* errors has taken the outcome of every batch and has rendered the final text.
PresentationErrorHarmless ==
    (kind = "pdf" /\ job_pc = "ended" /\ dispatched # {}
        /\ fatal \in {None, "presentation"})
    => /\ consumed = Len(tasks)
       /\ final_text.set

\* the orders in which the outcomes of the dispatched batches can arrive
ArrivalOrders ==
    {f \in [1 .. Cardinality(dispatched) -> dispatched] :
        \A j, k \in DOMAIN f : j # k => f[j] # f[k]}

\* the merge loop run on the outcomes taken in the order f
RECURSIVE MergeFrom(_, _, _)
MergeFrom(acc, f, k) ==
    IF k > Len(f) THEN acc ELSE MergeFrom(Extend(acc, outcome[f[k]]), f, k + 1)

Merge(f) == MergeFrom(<< >>, f, 1)

\* C18: once the text of a PDF is rendered, merging the same batch outcomes in
\* any order of arrival, sorting and rendering gives that same text, and so
\* does sorting and rendering the already aggregated page results again.
AggregationOrderIndependent ==
    PdfTextReady =>
        /\ \A f \in ArrivalOrders : Render(SortByPage(Merge(f))) = final_text.sections
        /\ Render(SortByPage(extracted_data)) = final_text.sections

\* web: the outcomes are collected in task order although batch 2 was first
AggregationOrderWitness ==
    /\ PdfTextReady
    /\ app = "web"
    /\ completed = << 2, 1 >>
    /\ \A b \in {1, 2} : outcome[b].state = "success" /\ Len(outcome[b].data) >= 1

\* endPage - startPage + 1 of batch b
DeclaredSize(b) == TaskOf(b).end - TaskOf(b).start + 1

IsProgress(ev) == ev.type = "PROGRESS"

\* the PROGRESS events batch b has enqueued, in order
ProgressOf(b) == SelectSeq(emitted[b], IsProgress)

\* C19: a Success outcome holds exactly one page result for each page of the
\* declared range, so fewer images than the range make a Failure, and every
\* PROGRESS event carries the declared range size as its total.
ShortfallIsFailure ==
    \A b \in dispatched :
        /\ outcome[b].state = "success" =>
              outcome[b].data =
                 [k \in 1 .. DeclaredSize(b) |-> PageResult(TaskOf(b).start + k - 1)]
        /\ \A k \in 1 .. Len(ProgressOf(b)) : ProgressOf(b)[k].tot = DeclaredSize(b)

\* the numbering and bound of the PROGRESS events of a batch, and the page
\* result that precedes each of them
ProgressCounts(b) ==
    /\ \A k \in 1 .. Len(ProgressOf(b)) :
          /\ ProgressOf(b)[k].cur = k
          /\ ProgressOf(b)[k].tot = ProgressOf(b)[1].tot
          /\ ProgressOf(b)[k].cur <= ProgressOf(b)[k].tot
    /\ worker[b].st = "ocr" =>
          /\ Len(worker[b].results) = Len(ProgressOf(b))
          /\ \A k \in 1 .. Len(ProgressOf(b)) :
                worker[b].results[k].page = TaskOf(b).start + k - 1

\* C20: the k-th PROGRESS event of a batch carries current = k and the total
\* of all the others, current never exceeds total, page startPage + k - 1 is
\* recorded when it is enqueued, and a batch that returned Success has
\* enqueued a PROGRESS event with current = total.
ProgressWellFormed ==
    \A b \in dispatched :
        /\ ProgressCounts(b)
        /\ outcome[b].state = "success" =>
              \E k \in 1 .. Len(ProgressOf(b)) : ProgressOf(b)[k].cur = ProgressOf(b)[k].tot

IsPrefixOf(s, t) == Len(s) <= Len(t) /\ \A k \in 1 .. Len(s) : s[k] = t[k]

\* the events of batch b that wait in the queue, in queue order
InChannel(b) == SelectSeq(queue, LAMBDA ev : ev.id = b)

\* C21: with several workers enqueuing and one coordinator dequeuing, what the
\* sink has seen of a batch is a prefix of what its worker enqueued, and the
\* events seen followed by those still in the queue are exactly the events
\* enqueued: none is duplicated, lost inside the queue, or reordered.
SinkSeesPrefix ==
    \A b \in BatchIds :
        /\ IsPrefixOf(seen[b], emitted[b])
        /\ seen[b] \o InChannel(b) = emitted[b]

\* two workers are enqueuing, events of both batches are in the queue and the
\* sink has already seen events of both
SinkSeesPrefixWitness ==
    /\ worker[1].st = "ocr"
    /\ worker[2].st = "ocr"
    /\ Len(seen[1]) >= 2
    /\ Len(seen[2]) >= 1
    /\ InChannel(1) # << >>
    /\ InChannel(2) # << >>

\* a desktop tick returns: from its drain loop, or at once at its first line
TickReturns ==
    \/ tick_pc = "drain" /\ tick_pc' = None
    \/ tick_pc = None /\ pending' = pending - 1 /\ tick_pc' = None

\* a web polling round leaves its inner loop
RoundDrained == job_pc = "poll" /\ job_pc' = "poll_check"

\* C22: a poll tick ends only when the queue is observed empty, so that all
\* the events that were in it when the tick began have been forwarded; a tick
\* that ends while the job is processing has scheduled the next one.
TickDrains ==
    [][/\ TickReturns => queue = << >>
       /\ (tick_pc = "drain" /\ tick_pc' = None /\ is_processing)
             => pending' = pending + 1
       /\ RoundDrained => queue = << >>]_vars

\* batches that a pool process still holds or would still take
Alive == {b \in BatchIds : worker[b].st \in {"queued", "raster", "ocr"}}

\* C23: when the job has reached its terminal state on any path, no batch of
\* its pool is queued or running any more, and the desktop application has
\* dropped its reference to the queue.
ResourcesReleased ==
    job_pc = "ended" =>
        /\ Alive = {}
        /\ app = "desktop" => ~current_queue

\* C24: in the desktop application a job on a PDF whose batches were handed
\* to the pool ends only after the result loop has taken every outcome and
\* the text was aggregated, and with the output written unless the
\* destination could not be written.
ResultLoopNeverAborts ==
    (app = "desktop" /\ kind = "pdf" /\ dispatched # {} /\ job_pc = "ended") =>
        /\ consumed = Len(tasks)
        /\ final_text.set
        /\ fatal # "destination" => output_file.set

(* ---------------------------------------------------------------------- *)
(* Desktop application: one job after another                              *)
(* ---------------------------------------------------------------------- *)

\* most ticks scheduled by earlier jobs that may be pending when the button
\* is pressed again
MaxStale == 1

\* start_conversion_thread after an earlier job has ended: the button was
\* re-enabled, the bars are cleared and a new perform_ocr_multiprocess starts
\* with fresh locals, a fresh pool and a fresh manager; ticks that the earlier
\* job scheduled stay scheduled
StartNextJob ==
    /\ app = "desktop"
    /\ job_pc = "ended"
    /\ btn_enabled
    /\ tick_pc = None
    /\ pending <= MaxStale
    /\ btn_enabled' = FALSE
    /\ is_processing' = TRUE
    /\ active_bars' = {}
    /\ job_pc' = "manager"
    /\ kind' = None
    /\ total_pages' = 0
    /\ tasks' = << >>
    /\ dispatched' = {}
    /\ worker' = [b \in BatchIds |-> IdleWorker]
    /\ outcome' = [b \in BatchIds |-> NoOutcome]
    /\ completed' = << >>
    /\ consumed' = 0
    /\ extracted_data' = << >>
    /\ errors' = << >>
    /\ final_text' = NoText
    /\ output_file' = NoText
    /\ fatal' = None
    /\ queue' = << >>
    /\ emitted' = [b \in BatchIds |-> << >>]
    /\ seen' = [b \in BatchIds |-> << >>]
    /\ executions' = [b \in BatchIds |-> 0]
    /\ produced' = [b \in BatchIds |-> 0]
    /\ raised' = [b \in BatchIds |-> None]
    /\ UNCHANGED << app, cpu_count, current_queue, pending, tick_pc, partVars >>

RestartInit == Init /\ app = "desktop"

RestartNext == WorkerNext \/ DesktopNext \/ StartNextJob

RestartSpec == RestartInit /\ [][RestartNext]_vars

\* ticks that are scheduled or running
LiveTicks == pending + (IF tick_pc = "drain" THEN 1 ELSE 0)

\* C25: in the desktop application, while is_processing is true and the queue
\* reference is set, exactly one tick is scheduled or running, also in a job
\* that was started while a tick of the job before it was still scheduled.
OneTickChain ==
    (app = "desktop" /\ is_processing /\ current_queue) => LiveTicks = 1

\* a step of the job thread of the desktop application
DesktopJobStep ==
    \/ DesktopCreateQueue
    \/ DesktopAnalyze
    \/ DesktopPdfInfoOk
    \/ DesktopPdfInfoFail
    \/ DesktopCreateChunks
    \/ DesktopOpenPool
    \/ DesktopNextResult
    \/ DesktopAggregate
    \/ DesktopImageStart
    \/ DesktopImageOcrOk
    \/ DesktopImageOcrFail
    \/ DesktopImageProgress
    \/ DesktopImageDone
    \/ DesktopSaveOk
    \/ DesktopSaveFail
    \/ DesktopFinallyFlag
    \/ DesktopFinallyQueue
    \/ DesktopFinallyButton

JobRunning == job_pc \notin {"idle", "ended"}

\* the job thread can take its next step, or it waits for a pool result and a
\* worker can take a step; with every result taken the aggregation is due
JobCanGoOn ==
    \/ job_pc # "results" /\ ENABLED DesktopJobStep
    \/ job_pc = "results" /\ consumed < Len(completed) /\ ENABLED DesktopNextResult
    \/ job_pc = "results" /\ PoolExhausted(consumed, tasks)
    \/ ENABLED WorkerNext

HasType(s, t) == \E k \in 1 .. Len(s) : s[k].type = t

\* batches whose START has been forwarded and whose DONE has not
StartedNotFinished == {b \in BatchIds : HasType(seen[b], "START") /\ ~HasType(seen[b], "DONE")}

\* C27: in the desktop application active_bars is exactly the set of batches
\* whose START has been forwarded since the bars were cleared and whose DONE
\* has not, and forwarding a PROGRESS or DONE of a batch that has no row
\* leaves any set of rows as it is.
ActiveBarsExact ==
    app = "desktop" =>
        /\ active_bars = StartedNotFinished
        /\ \A bars \in SUBSET BatchIds : \A b \in BatchIds \ bars :
              /\ Forward(bars, ProgressEv(b, 1, 1)) = bars
              /\ Forward(bars, DoneEv(b)) = bars

\* the row of batch 1 was removed by its DONE while batch 2 still has its row
ActiveBarsWitness ==
    /\ app = "desktop"
    /\ active_bars = {2}
    /\ HasType(seen[1], "DONE")
    /\ HasType(seen[2], "PROGRESS")

====
